---- MODULE Spec2Model ----
(***************************************************************************)
(* Kiln runner: the synchronous publish/subscribe bus (event.py), the      *)
(* Sensor / Controller / Heater / Zone / Kiln / Isolator components and    *)
(* the FiringSegment / FiringSchedule state machine, run by two execution  *)
(* contexts: the foreground (Application.run / main) and the background    *)
(* RepeatingTimer thread.                                                  *)
(*                                                                         *)
(* Units: temperatures are integers in centikelvin (273.15 K = 27315),     *)
(* powers in hundredths of a percent (100 % = 10000), time in seconds.     *)
(* A handler body between two post_event calls is one atomic step; the two *)
(* contexts interleave at these steps, and a context may be preempted      *)
(* between taking a callback from the subscriber list and calling it.      *)
(* Display, MQTT and logger handlers (external collaborators without       *)
(* effect on the state below) are not registered.                          *)
(***************************************************************************)
EXTENDS Integers, Sequences, FiniteSets, TLC

\* ------------------------------------------------------------------ bounds
MaxTicks == 2
\* Ticks of the timer explored in the scenario of one Ramp to 1273.15 K at
\* 1 K/s (1000 s, and 5 ticks more) and in that of one Hold of 10 s (and 2 more).
RampScenarioTicks == 1005
HoldScenarioTicks == 12
\* Configured segments of a schedule file in the runs that load a schedule.
MaxRawSegments == 3
\* Registrations per event type, and unsubscribe calls, in the runs of the
\* event bus alone.
MaxRegistrations == 3
MaxUnsubscribes == 2

\* --------------------------------------------------------- program constants
None == -1
TimerSel == -2
InitialKelvin == 27315
Tolerance == 500
DaySeconds == 86400
TimerPeriod == 1
FullPower == 10000
MinVirtualOutput == 2000
PwmStep == 1000
PwmFullDuty == 65535

Threads == {"main", "timer"}

EventTypes ==
    {"KILN_INITIALISED", "KILN_UPDATE_TRIGGERED", "KILN_TEMPERATURE_CHANGED",
     "SCHEDULE_NEXT_SEGMENT", "SCHEDULE_FINISHED", "COOL_DOWN_FINISHED",
     "SEGMENT_STARTED", "SEGMENT_SET_POINT_CHANGED", "SEGMENT_FINISHED",
     "ZONE_SENSOR_TEMPERATURE_CHANGED", "ZONE_CONTROLLER_OUTPUT_CHANGED",
     "ZONE_HEATER_POWER_CHANGED"}

\* ------------------------------------------------------------ configurations
\* One sensor / controller / heater variant triple per zone.
Chain(s, c, h) == [sensor |-> s, controller |-> c, heater |-> h]
VirtualChain == Chain("SensorVIRTUAL", "ControllerVIRTUAL", "HeaterVIRTUAL")
SimulatedChain == Chain("SensorVIRTUAL", "ControllerPID", "HeaterVIRTUAL")
PhysicalChain == Chain("SensorMAX31856", "ControllerPID", "HeaterSSRPWM")

\* Kiln configurations: the zones' chains and the isolator variant.
KilnConfigs ==
    { [zones |-> <<PhysicalChain>>, isolator_type |-> "IsolatorRelayDual"],
      [zones |-> <<SimulatedChain>>, isolator_type |-> "IsolatorRelaySingle"],
      [zones |-> <<VirtualChain>>, isolator_type |-> "IsolatorVirtual"] }

\* Normalised segment configurations (Kelvin, seconds, Kelvin per second).
RampCfg(target, gradient) ==
    [kind |-> "Ramp", target_temperature |-> target,
     temperature_gradient |-> gradient, hold_time |-> None]
HoldCfg(target, hold) ==
    [kind |-> "Hold", target_temperature |-> target,
     temperature_gradient |-> None, hold_time |-> hold]

\* Firing schedules, after unit normalisation.
ShortRamp == <<RampCfg(27500, 100)>>
LongRamp == <<RampCfg(80000, 1)>>
RampHoldRamp == <<RampCfg(27500, 100), HoldCfg(27500, 40000), RampCfg(27100, 100)>>
ThreeRamps == <<RampCfg(27500, 100), RampCfg(80000, 1), RampCfg(80000, 1)>>
HoldRamp == <<HoldCfg(27500, 43200), RampCfg(27100, 100)>>
\* One Ramp to 1273.15 K at 1 K/s; one Hold of 10 s at 500 K.
RampTo1273 == <<RampCfg(127315, 100)>>
HoldAt500 == <<HoldCfg(50000, 10)>>

\* Celsius readings of the thermocouple (hundredths of a degree).
ThermocoupleReadings == { -315, 0 }
\* Outputs of the PID library, clamped by its output_limits = (0, 100).
PidOutputs == { 0, 5500 }
\* Outputs of the PID library requested from the PWM heater in the run that
\* exercises its quantisation: every 5 percent, and values next to a step.
PwmRequests == { 500 * k : k \in 0..20 } \cup { 999, 1001, 9999 }
\* Time between two ticks of the timer, in seconds (half a day: the clock is
\* sampled sparsely so that runs of more than a day are covered).
ClockSteps == { 43200 }
\* Fault register of the thermocouple: a voltage fault alone is only printed
\* and is covered by "none".
SensorFaults == { "none", "critical" }

VARIABLES
    cfg,            \* kiln and schedule configuration, fixed at construction
    subs,           \* event._subscribers: event type -> list of handlers
    stack,          \* per context: the chain of post_event calls in progress
    pcMain,         \* position of the foreground context in main()
    pcTimer,        \* position of the RepeatingTimer thread
    now,            \* datetime.utcnow(), in seconds
    ticks,          \* number of KILN_UPDATE_TRIGGERED published by the timer
    halt,           \* Kiln.halt_periodic_updates (threading.Event)
    app,            \* Application.running
    sensor,         \* zone -> Sensor fields
    controller,     \* zone -> Controller fields
    heater,         \* zone -> Heater fields
    zone,           \* zone -> Zone fields
    kiln,           \* Kiln fields
    isolator,       \* Isolator relay outputs
    segments,       \* FiringSchedule.segments: list of FiringSegment fields
    schedule,       \* FiringSchedule fields
    hist            \* history of published events, for stating properties

progVars == <<cfg, subs, pcMain, pcTimer, now, ticks, halt, app>>
compVars == <<sensor, controller, heater, zone, kiln, isolator>>
schedVars == <<segments, schedule>>
vars == <<cfg, subs, stack, pcMain, pcTimer, now, ticks, halt, app,
          sensor, controller, heater, zone, kiln, isolator, segments, schedule, hist>>

ZoneIds == 1..Len(cfg.zones)
SegIds == 1..Len(segments)

\* ------------------------------------------------------------- event bus
H(cls, m, o) == [cls |-> cls, m |-> m, o |-> o]
NoHandler == H("", "", 0)

ActiveSegments == { i \in SegIds : segments[i].is_active }

PostFrame(ev, sel, data) ==
    [k |-> "post", ev |-> ev, sel |-> sel, data |-> data, idx |-> 1, h |-> NoHandler,
     active |-> ActiveSegments, registered |-> subs[ev], called |-> <<>>,
     exhausted |-> hist.byschedule > 0]
ContFrame(h, data) ==
    [k |-> "cont", ev |-> "", sel |-> None, data |-> data, idx |-> 0, h |-> h,
     active |-> {}, registered |-> <<>>, called |-> <<>>, exhausted |-> FALSE]

\* A post_event call in progress: idx is the position of its loop over the
\* live subscriber list; h is the callback the loop has already taken when
\* another context changed the list under it; active is the set of active
\* segments, registered the subscriber list and exhausted whether the schedule
\* had already published SCHEDULE_FINISHED when the call was made; called lists
\* the handlers the call has invoked so far.
\* A handler suspended in a post_event call it made: data is the payload it
\* was invoked with.
\* Handlers a zone's components register, in construction order.
ZoneSubscribers(z, chain, ev) ==
    (IF ev = "KILN_UPDATE_TRIGGERED"
        THEN <<H(chain.sensor, "handle_zone_update_triggered", z)>> ELSE <<>>)
    \o (IF ev = "ZONE_HEATER_POWER_CHANGED" /\ chain.sensor = "SensorVIRTUAL"
        THEN <<H(chain.sensor, "handle_heater_power_changed", z)>> ELSE <<>>)
    \o (IF ev = "KILN_UPDATE_TRIGGERED"
        THEN <<H(chain.controller, "handle_zone_update_trigger", z)>> ELSE <<>>)
    \o (IF ev = "SEGMENT_SET_POINT_CHANGED"
        THEN <<H(chain.controller, "handle_segment_set_point_changed", z)>> ELSE <<>>)
    \o (IF ev = "ZONE_SENSOR_TEMPERATURE_CHANGED"
        THEN <<H(chain.controller, "handle_zone_temperature_changed", z)>> ELSE <<>>)
    \o (IF ev = "ZONE_CONTROLLER_OUTPUT_CHANGED"
        THEN <<H(chain.heater, "handle_controller_output_change", z)>> ELSE <<>>)
    \o (IF ev = "SCHEDULE_FINISHED"
        THEN <<H(chain.heater, "handle_schedule_finished", z)>> ELSE <<>>)
    \o (IF ev = "SEGMENT_STARTED"
        THEN <<H("Zone", "handle_segment_started", z)>> ELSE <<>>)
    \o (IF ev = "SEGMENT_FINISHED"
        THEN <<H("Zone", "handle_segment_finished", z)>> ELSE <<>>)
    \o (IF ev = "ZONE_SENSOR_TEMPERATURE_CHANGED"
        THEN <<H("Zone", "handle_temperature_reading", z)>> ELSE <<>>)
    \o (IF ev = "SCHEDULE_FINISHED"
        THEN <<H("Zone", "handle_schedule_finished", z)>> ELSE <<>>)

RECURSIVE ZonesSubscribers(_, _, _)
ZonesSubscribers(zs, n, ev) ==
    IF n = 0 THEN <<>>
    ELSE ZonesSubscribers(zs, n - 1, ev) \o ZoneSubscribers(n, zs[n], ev)

KilnSubscribers(c, ev) ==
    ZonesSubscribers(c.zones, Len(c.zones), ev)
    \o (IF ev \in {"SCHEDULE_NEXT_SEGMENT", "SCHEDULE_FINISHED"}
        THEN <<H(c.isolator_type,
                 IF ev = "SCHEDULE_NEXT_SEGMENT" THEN "handle_schedule_next_segment"
                                                 ELSE "handle_schedule_finished", 0)>>
        ELSE <<>>)
    \o (IF ev = "ZONE_SENSOR_TEMPERATURE_CHANGED"
        THEN <<H("Kiln", "handle_zone_temperature_update", 0)>> ELSE <<>>)

SegmentClass(sc) == IF sc.kind = "Ramp" THEN "FiringSegmentRamp" ELSE "FiringSegmentHold"

ScheduleSubscribers(c, ev) ==
    (IF ev = "SCHEDULE_NEXT_SEGMENT"
        THEN [i \in 1..Len(c.segments) |->
                 H(SegmentClass(c.segments[i]), "handle_schedule_next_segment", i)]
        ELSE <<>>)
    \o (IF ev = "KILN_TEMPERATURE_CHANGED"
        THEN [i \in 1..Len(c.segments) |->
                 H(SegmentClass(c.segments[i]), "handle_kiln_temperature_changed", i)]
        ELSE <<>>)
    \o (IF ev = "KILN_INITIALISED"
        THEN <<H("FiringSchedule", "handle_kiln_initialised", 0)>> ELSE <<>>)
    \o (IF ev = "SEGMENT_FINISHED"
        THEN <<H("FiringSchedule", "handle_segment_finished", 0)>> ELSE <<>>)

ApplicationSubscribers(ev) ==
    (IF ev = "SCHEDULE_FINISHED"
        THEN <<H("Application", "handle_schedule_finished", 0)>> ELSE <<>>)
    \o (IF ev = "COOL_DOWN_FINISHED"
        THEN <<H("Application", "handle_cool_down_finished", 0)>> ELSE <<>>)

\* The registry after Application.__init__: Kiln, then FiringSchedule, then
\* the Application's own handlers.
InitialSubscribers(c) ==
    [ev \in EventTypes |->
        KilnSubscribers(c, ev) \o ScheduleSubscribers(c, ev) \o ApplicationSubscribers(ev)]

\* unsubscribe(): removes the first registration of the handler.
RECURSIVE IndexOf(_, _, _)
IndexOf(s, h, i) ==
    IF i > Len(s) THEN 0 ELSE IF s[i] = h THEN i ELSE IndexOf(s, h, i + 1)

RemoveAt_last(s, i) == SubSeq(s, 1, Len(s) - 1)
RemoveAt(s, i) == [j \in 1..(Len(s) - 1) |-> IF j < i THEN s[j] ELSE s[j + 1]]

unsubscribe_nothing(registry, ev, h) == registry
unsubscribe(registry, ev, h) ==
    [registry EXCEPT ![ev] = RemoveAt(@, IndexOf(@, h, 1))]

Top(t) == stack[t][Len(stack[t])]
InDispatch(t) == stack[t] # <<>> /\ Top(t).k = "post"
HasNext(t) ==
    InDispatch(t) /\ (Top(t).h # NoHandler \/ Top(t).idx <= Len(subs[Top(t).ev]))
Callee(t) == IF Top(t).h # NoHandler THEN Top(t).h ELSE subs[Top(t).ev][Top(t).idx]
Calls(t, cls, m) == HasNext(t) /\ Callee(t).cls = cls /\ Callee(t).m = m
Resumes(t, cls, m) ==
    stack[t] # <<>> /\ Top(t).k = "cont" /\ Top(t).h.cls = cls /\ Top(t).h.m = m

\* The caller's frames once post_event has taken the next handler of its loop.
Advanced_repeating(t) == stack[t]
Advanced_skipping(t) ==
    [stack[t] EXCEPT ![Len(stack[t])].idx = @ + 2, ![Len(stack[t])].h = NoHandler,
                     ![Len(stack[t])].called = Append(@, Callee(t))]
Advanced(t) ==
    [stack[t] EXCEPT ![Len(stack[t])].idx = @ + 1, ![Len(stack[t])].h = NoHandler,
                     ![Len(stack[t])].called = Append(@, Callee(t))]
\* The loop of context u has taken its next callback but not yet called it.
Taken(u) == [stack[u] EXCEPT ![Len(stack[u])].h = Callee(u)]
Popped(t) == SubSeq(stack[t], 1, Len(stack[t]) - 1)

SegmentClasses == {"FiringSegmentRamp", "FiringSegmentHold"}

\* History kept at each post_event call: whether SCHEDULE_FINISHED was
\* published (by anyone, by a sensor fault, how often by the schedule), the
\* segments named by SCHEDULE_NEXT_SEGMENT, each segment's last own setpoint
\* and the time of its activation, the latest sensor reading, set point and kiln temperature and the segments
\* that have published SEGMENT_FINISHED. hist.unsubscribed lists the
\* unsubscribe calls that returned, as <<event type, handler>>.
Logged(ev, data, by) ==
    [hist EXCEPT
        !.finished = @ \/ ev = "SCHEDULE_FINISHED",
        !.faulted = @ \/ (ev = "SCHEDULE_FINISHED" /\ by.m = "handle_zone_update_triggered"),
        !.byschedule = IF ev = "SCHEDULE_FINISHED" /\ by.cls = "FiringSchedule"
                       THEN @ + 1 ELSE @,
        !.named = IF ev = "SCHEDULE_NEXT_SEGMENT" THEN Append(@, data) ELSE @,
        !.announced = IF ev = "SEGMENT_SET_POINT_CHANGED" /\ by.cls \in SegmentClasses
                      THEN [@ EXCEPT ![by.o] = data] ELSE @,
        !.activated = IF ev = "SEGMENT_SET_POINT_CHANGED" /\ by.m = "handle_schedule_next_segment"
                      THEN [@ EXCEPT ![by.o] = now] ELSE @,
        !.reading = IF ev = "ZONE_SENSOR_TEMPERATURE_CHANGED" THEN data ELSE @,
        !.set_point = IF ev = "SEGMENT_SET_POINT_CHANGED" THEN data ELSE @,
        !.kiln_temperature = IF ev = "KILN_TEMPERATURE_CHANGED" THEN data ELSE @,
        !.completed = IF ev = "SEGMENT_FINISHED" /\ by.cls \in SegmentClasses
                      THEN @ \cup {by.o} ELSE @]

\* post_event's loop: a call whose list is exhausted (or empty) returns to
\* its publisher at once, up to the innermost handler that still has to resume.
RECURSIVE Unwind(_, _)
Unwind(s, registry) ==
    IF /\ s # <<>> /\ s[Len(s)].k = "post" /\ s[Len(s)].h = NoHandler
       /\ s[Len(s)].idx > Len(registry[s[Len(s)].ev])
    THEN Unwind(SubSeq(s, 1, Len(s) - 1), registry)
    ELSE s

\* Context t continues with frames s under the registry `registry`.
Continue(t, s, registry) ==
    stack' = [u \in Threads |-> Unwind(IF u = t THEN s ELSE stack[u], registry)]

\* The assertions on selector and data made by the handlers subscribed to ev
\* (Application, Zone, FiringSchedule, FiringSegment, Display, MQTT).
Asserted(ev, sel, data) ==
    /\ ev \in {"KILN_INITIALISED", "SCHEDULE_FINISHED", "COOL_DOWN_FINISHED",
                "SEGMENT_STARTED", "SEGMENT_FINISHED"} => sel = None /\ data = None
    /\ ev \in {"SCHEDULE_NEXT_SEGMENT", "KILN_TEMPERATURE_CHANGED"} => sel = None
    /\ ev = "SEGMENT_SET_POINT_CHANGED" => sel = None /\ data # None
    /\ ev = "ZONE_HEATER_POWER_CHANGED" => sel # None

\* post_event(ev, sel, data) called by handler `by` of context t whose frames
\* below the call are `base`. hist.refused collects the event types published
\* with a selector or data that a handler's assertion rejects, hist.power
\* the power last announced for each zone by ZONE_HEATER_POWER_CHANGED.
Post_deferred(t, base, ev, sel, data, by) ==
    /\ Continue(t, <<PostFrame(ev, sel, data)>> \o base, subs)
    /\ hist' = [Logged(ev, data, by) EXCEPT
                   !.refused = IF Asserted(ev, sel, data) THEN @ ELSE @ \cup {ev},
                   !.power = IF ev = "ZONE_HEATER_POWER_CHANGED" /\ sel \in DOMAIN @
                             THEN [@ EXCEPT ![sel] = data] ELSE @]
Post(t, base, ev, sel, data, by) ==
    /\ Continue(t, Append(base, PostFrame(ev, sel, data)), subs)
    /\ hist' = [Logged(ev, data, by) EXCEPT
                   !.refused = IF Asserted(ev, sel, data) THEN @ ELSE @ \cup {ev},
                   !.power = IF ev = "ZONE_HEATER_POWER_CHANGED" /\ sel \in DOMAIN @
                             THEN [@ EXCEPT ![sel] = data] ELSE @]

\* An exception raised in a handler of context t: nothing catches it, every
\* post_event call of the context is abandoned and the context ends.
Raise_contained(t) ==
    /\ Continue(t, Advanced(t), subs)
    /\ UNCHANGED <<pcMain, pcTimer, hist>>
Raise(t) ==
    /\ stack' = [stack EXCEPT ![t] = <<>>]
    /\ pcMain' = IF t = "main" THEN "crashed" ELSE pcMain
    /\ pcTimer' = IF t = "timer" THEN "crashed" ELSE pcTimer
    /\ UNCHANGED hist

\* The handler returns without publishing.
Return(t) ==
    /\ Continue(t, Advanced(t), subs)
    /\ UNCHANGED hist

\* ------------------------------------------------------------ construction
\* FiringSegment.__init__ (start_temperature_kelvin is not set before activation).
NewSegment(sc) ==
    [configuration |-> sc, is_active |-> FALSE, start_time |-> 0,
     start_temperature_kelvin |-> None,
     latest_kiln_temperature_kelvin |-> InitialKelvin,
     set_point_temperature_kelvin |-> InitialKelvin]

NewController(cls) ==
    [set_point |-> 0, output |-> 0,
     latest_temperature_kelvin |-> IF cls = "ControllerVIRTUAL" THEN InitialKelvin ELSE 0]

\* A run: a kiln configuration, a schedule and the number of timer ticks
\* explored (one less for the three-segment schedule on the simulated chain).
Run(k, s, n) ==
    [zones |-> k.zones, isolator_type |-> k.isolator_type, segments |-> s, max_ticks |-> n,
     clock_steps |-> ClockSteps, interrupts |-> TRUE, pid_outputs |-> PidOutputs]
\* A run whose clock is read at every tick of the timer, one second apart,
\* and that the operator does not interrupt.
RunEverySecond(k, s, n) ==
    [Run(k, s, n) EXCEPT !.clock_steps = {TimerPeriod}, !.interrupts = FALSE]
VirtualKiln == CHOOSE k \in KilnConfigs : k.zones = <<VirtualChain>>
PhysicalKiln == CHOOSE k \in KilnConfigs : k.zones = <<PhysicalChain>>
\* One uninterrupted tick of the physical chain, the PID output ranging over
\* PwmRequests.
\* One uninterrupted tick of a kiln of two physical zones.
TwoZoneKiln == [zones |-> <<PhysicalChain, PhysicalChain>>, isolator_type |-> "IsolatorRelayDual"]
TwoZoneRun == [Run(TwoZoneKiln, RampHoldRamp, 1) EXCEPT !.interrupts = FALSE]
PwmRun ==
    [Run(PhysicalKiln, LongRamp, 1) EXCEPT !.pid_outputs = PwmRequests, !.interrupts = FALSE]
\* One uninterrupted tick of the physical chain under a schedule of two Ramps,
\* to 275.00 K and to 271.00 K.
TwoRampsRun ==
    [Run(PhysicalKiln, <<RampCfg(27500, 100), RampCfg(27100, 100)>>, 1)
        EXCEPT !.interrupts = FALSE]
RampScenario == RunEverySecond(VirtualKiln, RampTo1273, RampScenarioTicks)
HoldScenario == RunEverySecond(VirtualKiln, HoldAt500, HoldScenarioTicks)

Configurations ==
    { Run(k, s, MaxTicks) : k \in KilnConfigs, s \in {ShortRamp, LongRamp} }
    \cup { Run(k, RampHoldRamp, MaxTicks) : k \in { c \in KilnConfigs : c.zones # <<SimulatedChain>> } }
    \cup { Run(k, ThreeRamps, MaxTicks - 1) : k \in { c \in KilnConfigs : c.zones = <<SimulatedChain>> } }
    \cup { Run(k, HoldRamp, MaxTicks) : k \in { c \in KilnConfigs : c.zones = <<PhysicalChain>> } }
    \cup { RampScenario, HoldScenario, PwmRun, TwoZoneRun, TwoRampsRun }

\* The state after Application.__init__, for a run out of `runs`.
Constructed(runs) ==
    /\ cfg \in runs
    /\ subs = InitialSubscribers(cfg)
    /\ stack = [t \in Threads |-> <<>>]
    /\ pcMain = "run"
    /\ pcTimer = "idle"
    /\ now = 0
    /\ ticks = 0
    /\ halt = FALSE
    /\ app = [running |-> FALSE]
    /\ sensor = [z \in 1..Len(cfg.zones) |-> [latest_temperature_kelvin |-> InitialKelvin]]
    /\ controller = [z \in 1..Len(cfg.zones) |-> NewController(cfg.zones[z].controller)]
    /\ heater = [z \in 1..Len(cfg.zones) |-> [power_percent |-> 0, duty_cycle |-> 0]]
    /\ zone = [z \in 1..Len(cfg.zones) |-> [latest_temperature_kelvin |-> InitialKelvin]]
    /\ kiln = [latest_temperature_kelvin |-> InitialKelvin]
    /\ isolator = [relay1 |-> TRUE, relay2 |-> TRUE]
    /\ segments = [i \in 1..Len(cfg.segments) |-> NewSegment(cfg.segments[i])]
    /\ schedule = [current_segment_index |-> None]
    /\ hist = [finished |-> FALSE, faulted |-> FALSE, byschedule |-> 0, named |-> <<>>,
               announced |-> [i \in 1..Len(cfg.segments) |-> None],
               activated |-> [i \in 1..Len(cfg.segments) |-> None],
               reading |-> None, completed |-> {},
               informed |-> [z \in 1..Len(cfg.zones) |-> 0], unsubscribed |-> <<>>,
               set_point |-> None, kiln_temperature |-> None, refused |-> {},
               power |-> [z \in 1..Len(cfg.zones) |-> None]]

Init == Constructed(Configurations)

\* ------------------------------------------------------- execution contexts
\* Application.run(): start the timer thread, publish KILN_INITIALISED.
Application_run ==
    /\ pcMain = "run"
    /\ pcMain' = "firing"
    /\ pcTimer' = "wait"
    /\ app' = [app EXCEPT !.running = TRUE]
    /\ Post("main", <<>>, "KILN_INITIALISED", None, None, H("Application", "run", 0))
    /\ UNCHANGED <<cfg, subs, now, ticks, halt, compVars, schedVars>>

\* main(): ^C while waiting for the schedule publishes SCHEDULE_FINISHED.
main_KeyboardInterrupt ==
    /\ pcMain = "firing" /\ stack["main"] = <<>> /\ cfg.interrupts
    /\ pcMain' = "aborting"
    /\ Post("main", <<>>, "SCHEDULE_FINISHED", None, None, H("main", "KeyboardInterrupt", 0))
    /\ UNCHANGED <<cfg, subs, pcTimer, now, ticks, halt, app, compVars, schedVars>>

\* main(): the first wait loop is left; Application.cool_down().
Application_cool_down ==
    /\ stack["main"] = <<>>
    /\ \/ pcMain = "firing" /\ ~app.running
       \/ pcMain = "aborting"
    /\ pcMain' = "cooling"
    /\ app' = [app EXCEPT !.running = TRUE]
    /\ UNCHANGED <<cfg, subs, stack, pcTimer, now, ticks, halt, compVars, schedVars, hist>>

\* main(): ^C during cool-down publishes COOL_DOWN_FINISHED.
main_KeyboardInterrupt_cool_down ==
    /\ pcMain = "cooling" /\ stack["main"] = <<>> /\ cfg.interrupts
    /\ pcMain' = "done"
    /\ Post("main", <<>>, "COOL_DOWN_FINISHED", None, None, H("main", "KeyboardInterrupt", 0))
    /\ UNCHANGED <<cfg, subs, pcTimer, now, ticks, halt, app, compVars, schedVars>>

\* RepeatingTimer.run(): wait(1.0) timed out, publish KILN_UPDATE_TRIGGERED.
\* The first wait of one second outlasts the publish of KILN_INITIALISED that
\* Application.run() makes right after starting the thread.
TimerWaitTimedOut_flag_ignored == pcTimer = "wait" /\ stack["timer"] = <<>>
TimerWaitTimedOut == pcTimer = "wait" /\ stack["timer"] = <<>> /\ ~halt

RepeatingTimer_run ==
    /\ TimerWaitTimedOut /\ ticks < cfg.max_ticks
    /\ ~(pcMain = "firing" /\ stack["main"] # <<>>)
    /\ ticks' = ticks + 1
    /\ \E dt \in cfg.clock_steps : now' = now + dt
    /\ Post("timer", <<>>, "KILN_UPDATE_TRIGGERED", TimerSel, None, H("RepeatingTimer", "run", 0))
    /\ UNCHANGED <<cfg, subs, pcMain, pcTimer, halt, app, compVars, schedVars>>

\* RepeatingTimer.run(): wait() saw the stop flag, the loop ends.
RepeatingTimer_stop ==
    /\ pcTimer = "wait" /\ stack["timer"] = <<>> /\ halt
    /\ pcTimer' = "stopped"
    /\ UNCHANGED <<cfg, subs, stack, pcMain, now, ticks, halt, app, compVars, schedVars, hist>>

\* ------------------------------------------------------------------ sensors
SensorVIRTUAL_handle_zone_update_triggered(t) ==
    /\ Calls(t, "SensorVIRTUAL", "handle_zone_update_triggered")
    /\ Return(t)
    /\ UNCHANGED <<progVars, compVars, schedVars>>

\* loss = (T - 273.15) * 0.005, gain = power * 0.15
ThermalModel(temp, power) ==
    temp - (((temp - InitialKelvin) * 5) \div 1000) + ((power * 15) \div 100)

SensorVIRTUAL_handle_heater_power_changed(t) ==
    /\ Calls(t, "SensorVIRTUAL", "handle_heater_power_changed")
    /\ LET z == Callee(t).o
           T == ThermalModel(sensor[z].latest_temperature_kelvin, Top(t).data)
       IN IF Top(t).sel # z
          THEN Return(t) /\ UNCHANGED sensor
          ELSE /\ sensor' = [sensor EXCEPT ![z].latest_temperature_kelvin = T]
               /\ Post(t, Advanced(t), "ZONE_SENSOR_TEMPERATURE_CHANGED", z, T, Callee(t))
    /\ UNCHANGED <<progVars, controller, heater, zone, kiln, isolator, schedVars>>

\* read_sensor(): a critical fault publishes SCHEDULE_FINISHED; the reading
\* is returned and published afterwards in every case.
SensorMAX31856_handle_zone_update_triggered(t) ==
    /\ Calls(t, "SensorMAX31856", "handle_zone_update_triggered")
    /\ \E fault \in SensorFaults :
         IF fault = "critical"
         THEN /\ Post(t, Append(Advanced(t), ContFrame(Callee(t), None)),
                      "SCHEDULE_FINISHED", None, None, Callee(t))
              /\ UNCHANGED sensor
         ELSE \E c \in ThermocoupleReadings :
                /\ sensor' = [sensor EXCEPT ![Callee(t).o].latest_temperature_kelvin = c + InitialKelvin]
                /\ Post(t, Advanced(t), "ZONE_SENSOR_TEMPERATURE_CHANGED",
                        Callee(t).o, c + InitialKelvin, Callee(t))
    /\ UNCHANGED <<progVars, controller, heater, zone, kiln, isolator, schedVars>>

SensorMAX31856_read_sensor_return(t) ==
    /\ Resumes(t, "SensorMAX31856", "handle_zone_update_triggered")
    /\ \E c \in ThermocoupleReadings :
         /\ sensor' = [sensor EXCEPT ![Top(t).h.o].latest_temperature_kelvin = c + InitialKelvin]
         /\ Post(t, Popped(t), "ZONE_SENSOR_TEMPERATURE_CHANGED",
                 Top(t).h.o, c + InitialKelvin, Top(t).h)
    /\ UNCHANGED <<progVars, controller, heater, zone, kiln, isolator, schedVars>>

\* -------------------------------------------------------------- controllers
\* The set point being delivered in context t comes from a reading of zone z
\* that was published within the timer's current tick.
FromTickReading(t, z) ==
    /\ stack[t][1].ev = "KILN_UPDATE_TRIGGERED"
    /\ \E p \in 1..Len(stack[t]) :
          /\ stack[t][p].k = "post"
          /\ stack[t][p].ev = "ZONE_SENSOR_TEMPERATURE_CHANGED"
          /\ stack[t][p].sel = z

\* History: hist.informed[z] is the tick within which the controller of zone
\* z was last given a set point that came from that tick's reading.
Controller_handle_segment_set_point_changed(t) ==
    /\ \/ Calls(t, "ControllerVIRTUAL", "handle_segment_set_point_changed")
       \/ Calls(t, "ControllerPID", "handle_segment_set_point_changed")
    /\ controller' = [controller EXCEPT ![Callee(t).o].set_point = Top(t).data]
    /\ Continue(t, Advanced(t), subs)
    /\ hist' = [hist EXCEPT !.informed[Callee(t).o] =
                    IF FromTickReading(t, Callee(t).o) THEN ticks ELSE @]
    /\ UNCHANGED <<progVars, sensor, heater, zone, kiln, isolator, schedVars>>

Controller_handle_zone_temperature_changed(t) ==
    /\ \/ Calls(t, "ControllerVIRTUAL", "handle_zone_temperature_changed")
       \/ Calls(t, "ControllerPID", "handle_zone_temperature_changed")
    /\ controller' = IF Top(t).sel # Callee(t).o THEN controller
                     ELSE [controller EXCEPT ![Callee(t).o].latest_temperature_kelvin = Top(t).data]
    /\ Return(t)
    /\ UNCHANGED <<progVars, sensor, heater, zone, kiln, isolator, schedVars>>

Min(a, b) == IF a < b THEN a ELSE b
Max(a, b) == IF a > b THEN a ELSE b
Abs(a) == IF a < 0 THEN -a ELSE a

VirtualOutput(set_point, temp) ==
    IF set_point > temp THEN Min(FullPower, Max(MinVirtualOutput, set_point - temp)) ELSE 0

ControllerVIRTUAL_handle_zone_update_trigger(t) ==
    /\ Calls(t, "ControllerVIRTUAL", "handle_zone_update_trigger")
    /\ LET z == Callee(t).o
           out == VirtualOutput(controller[z].set_point, controller[z].latest_temperature_kelvin)
       IN IF Top(t).sel # z
          THEN Return(t) /\ UNCHANGED controller
          ELSE /\ controller' = [controller EXCEPT ![z].output = out]
               /\ Post(t, Advanced(t), "ZONE_CONTROLLER_OUTPUT_CHANGED", z, out, Callee(t))
    /\ UNCHANGED <<progVars, sensor, heater, zone, kiln, isolator, schedVars>>

ControllerPID_handle_zone_update_trigger(t) ==
    /\ Calls(t, "ControllerPID", "handle_zone_update_trigger")
    /\ \E out \in cfg.pid_outputs :
         /\ controller' = [controller EXCEPT ![Callee(t).o].output = out]
         /\ Post(t, Advanced(t), "ZONE_CONTROLLER_OUTPUT_CHANGED", Callee(t).o, out, Callee(t))
    /\ UNCHANGED <<progVars, sensor, heater, zone, kiln, isolator, schedVars>>

\* ------------------------------------------------------------------ heaters
HeaterVIRTUAL_handle_controller_output_change(t) ==
    /\ Calls(t, "HeaterVIRTUAL", "handle_controller_output_change")
    /\ LET z == Callee(t).o
       IN IF Top(t).sel # z
          THEN Return(t) /\ UNCHANGED heater
          ELSE /\ heater' = [heater EXCEPT ![z].power_percent = Top(t).data]
               /\ Post(t, Advanced(t), "ZONE_HEATER_POWER_CHANGED", z, Top(t).data, Callee(t))
    /\ UNCHANGED <<progVars, sensor, controller, zone, kiln, isolator, schedVars>>

Quantised_threefold(power) == (power \div PwmStep) * (3 * PwmStep)
Quantised(power) == (power \div PwmStep) * PwmStep
DutyCycle_rounded(power) == (power * PwmFullDuty + FullPower \div 2) \div FullPower
DutyCycle(power) == (power * PwmFullDuty) \div FullPower

HeaterSSRPWM_handle_controller_output_change(t) ==
    /\ Calls(t, "HeaterSSRPWM", "handle_controller_output_change")
    /\ LET z == Callee(t).o
           p == Quantised(Top(t).data)
       IN IF Top(t).sel # z
          THEN Return(t) /\ UNCHANGED heater
          ELSE /\ heater' = [heater EXCEPT ![z] = [power_percent |-> p, duty_cycle |-> DutyCycle(p)]]
               /\ Post(t, Advanced(t), "ZONE_HEATER_POWER_CHANGED", z, p, Callee(t))
    /\ UNCHANGED <<progVars, sensor, controller, zone, kiln, isolator, schedVars>>

HeaterVIRTUAL_handle_schedule_finished(t) ==
    /\ Calls(t, "HeaterVIRTUAL", "handle_schedule_finished")
    /\ heater' = [heater EXCEPT ![Callee(t).o].power_percent = 0]
    /\ Post(t, Advanced(t), "ZONE_HEATER_POWER_CHANGED", Callee(t).o, 0, Callee(t))
    /\ UNCHANGED <<progVars, sensor, controller, zone, kiln, isolator, schedVars>>

HeaterSSRPWM_handle_schedule_finished(t) ==
    /\ Calls(t, "HeaterSSRPWM", "handle_schedule_finished")
    /\ heater' = [heater EXCEPT ![Callee(t).o] = [power_percent |-> 0, duty_cycle |-> 0]]
    /\ Return(t)
    /\ UNCHANGED <<progVars, sensor, controller, zone, kiln, isolator, schedVars>>

\* ------------------------------------------------------------ zone and kiln
Zone_handle_segment_started_for_zone(t) ==
    /\ Calls(t, "Zone", "handle_segment_started")
    /\ Post(t, Advanced(t), "SEGMENT_SET_POINT_CHANGED", Callee(t).o,
            zone[Callee(t).o].latest_temperature_kelvin, Callee(t))
    /\ UNCHANGED <<progVars, compVars, schedVars>>
Zone_handle_segment_started(t) ==
    /\ Calls(t, "Zone", "handle_segment_started")
    /\ Post(t, Advanced(t), "SEGMENT_SET_POINT_CHANGED", None,
            zone[Callee(t).o].latest_temperature_kelvin, Callee(t))
    /\ UNCHANGED <<progVars, compVars, schedVars>>

Zone_handle_segment_finished(t) ==
    /\ Calls(t, "Zone", "handle_segment_finished")
    /\ Return(t)
    /\ UNCHANGED <<progVars, compVars, schedVars>>

Zone_handle_schedule_finished(t) ==
    /\ Calls(t, "Zone", "handle_schedule_finished")
    /\ Return(t)
    /\ UNCHANGED <<progVars, compVars, schedVars>>

Zone_handle_temperature_reading(t) ==
    /\ Calls(t, "Zone", "handle_temperature_reading")
    /\ zone' = IF Top(t).sel # Callee(t).o THEN zone
               ELSE [zone EXCEPT ![Callee(t).o].latest_temperature_kelvin = Top(t).data]
    /\ Return(t)
    /\ UNCHANGED <<progVars, sensor, controller, heater, kiln, isolator, schedVars>>

Kiln_handle_zone_temperature_update(t) ==
    /\ Calls(t, "Kiln", "handle_zone_temperature_update")
    /\ IF Top(t).sel \in ZoneIds
       THEN /\ kiln' = [kiln EXCEPT !.latest_temperature_kelvin = Top(t).data]
            /\ Post(t, Advanced(t), "KILN_TEMPERATURE_CHANGED", None, Top(t).data, Callee(t))
       ELSE Return(t) /\ UNCHANGED kiln
    /\ UNCHANGED <<progVars, sensor, controller, heater, zone, isolator, schedVars>>

\* ----------------------------------------------------------------- isolator
IsolatorVirtual_handle_schedule_next_segment(t) ==
    /\ Calls(t, "IsolatorVirtual", "handle_schedule_next_segment")
    /\ Return(t)
    /\ UNCHANGED <<progVars, compVars, schedVars>>

IsolatorVirtual_handle_schedule_finished(t) ==
    /\ Calls(t, "IsolatorVirtual", "handle_schedule_finished")
    /\ Return(t)
    /\ UNCHANGED <<progVars, compVars, schedVars>>

IsolatorRelaySingle_handle_schedule_next_segment(t) ==
    /\ Calls(t, "IsolatorRelaySingle", "handle_schedule_next_segment")
    /\ isolator' = [isolator EXCEPT !.relay1 = FALSE]
    /\ Return(t)
    /\ UNCHANGED <<progVars, sensor, controller, heater, zone, kiln, schedVars>>

IsolatorRelaySingle_handle_schedule_finished(t) ==
    /\ Calls(t, "IsolatorRelaySingle", "handle_schedule_finished")
    /\ isolator' = [isolator EXCEPT !.relay1 = TRUE]
    /\ Return(t)
    /\ UNCHANGED <<progVars, sensor, controller, heater, zone, kiln, schedVars>>

IsolatorRelayDual_handle_schedule_next_segment(t) ==
    /\ Calls(t, "IsolatorRelayDual", "handle_schedule_next_segment")
    /\ isolator' = [relay1 |-> FALSE, relay2 |-> FALSE]
    /\ Return(t)
    /\ UNCHANGED <<progVars, sensor, controller, heater, zone, kiln, schedVars>>

IsolatorRelayDual_handle_schedule_finished(t) ==
    /\ Calls(t, "IsolatorRelayDual", "handle_schedule_finished")
    /\ isolator' = [relay1 |-> TRUE, relay2 |-> TRUE]
    /\ Return(t)
    /\ UNCHANGED <<progVars, sensor, controller, heater, zone, kiln, schedVars>>

\* ----------------------------------------------------------------- segments
\* FiringSegment.handle_schedule_next_segment, up to its first post_event.
FiringSegment_handle_schedule_next_segment(t) ==
    /\ \E cls \in SegmentClasses : Calls(t, cls, "handle_schedule_next_segment")
    /\ LET i == Callee(t).o
           start == segments[i].latest_kiln_temperature_kelvin
       IN IF Top(t).data # i
          THEN /\ segments' = [segments EXCEPT ![i].is_active = FALSE]
               /\ Return(t)
          ELSE /\ segments' = [segments EXCEPT ![i].is_active = TRUE,
                                               ![i].start_time = now,
                                               ![i].start_temperature_kelvin = start]
               /\ Post(t, Append(Advanced(t), ContFrame(Callee(t), None)),
                       "SEGMENT_SET_POINT_CHANGED", None, start, Callee(t))
    /\ UNCHANGED <<progVars, compVars, schedule>>

\* ... and its second post_event.
FiringSegment_handle_schedule_next_segment_started(t) ==
    /\ \E cls \in SegmentClasses : Resumes(t, cls, "handle_schedule_next_segment")
    /\ Post(t, Popped(t), "SEGMENT_STARTED", None, None, Top(t).h)
    /\ UNCHANGED <<progVars, compVars, schedVars>>

\* timedelta.seconds: the seconds field of the difference, without its days.
ElapsedSeconds(start_time) == (now - start_time) % DaySeconds

RampSetPoint(seg) ==
    LET c == seg.configuration
        delta == Abs(ElapsedSeconds(seg.start_time) * c.temperature_gradient)
    IN IF seg.start_temperature_kelvin < c.target_temperature
       THEN Min(c.target_temperature, seg.start_temperature_kelvin + delta)
       ELSE Max(c.target_temperature, seg.start_temperature_kelvin - delta)

\* FiringSegmentRamp.handle_kiln_temperature_changed, up to its post_event of
\* the set point.
FiringSegmentRamp_handle_kiln_temperature_changed(t) ==
    /\ Calls(t, "FiringSegmentRamp", "handle_kiln_temperature_changed")
    /\ LET i == Callee(t).o
           sp == RampSetPoint(segments[i])
       IN IF ~segments[i].is_active
          THEN /\ segments' = [segments EXCEPT ![i].latest_kiln_temperature_kelvin = Top(t).data]
               /\ Return(t)
          ELSE /\ segments' = [segments EXCEPT ![i].latest_kiln_temperature_kelvin = Top(t).data,
                                               ![i].set_point_temperature_kelvin = sp]
               /\ Post(t, Append(Advanced(t), ContFrame(Callee(t), Top(t).data)),
                       "SEGMENT_SET_POINT_CHANGED", None, sp, Callee(t))
    /\ UNCHANGED <<progVars, compVars, schedule>>

RampFinished(seg) ==
    Abs(seg.configuration.target_temperature - seg.latest_kiln_temperature_kelvin) < Tolerance

\* ... and its test of the tolerance after that post_event returned.
FiringSegmentRamp_handle_kiln_temperature_changed_finish(t) ==
    /\ Resumes(t, "FiringSegmentRamp", "handle_kiln_temperature_changed")
    /\ IF RampFinished(segments[Top(t).h.o])
       THEN Post(t, Popped(t), "SEGMENT_FINISHED", None, None, Top(t).h)
       ELSE Continue(t, Popped(t), subs) /\ UNCHANGED hist
    /\ UNCHANGED <<progVars, compVars, schedVars>>

HoldSetPoint_latest(seg) == seg.latest_kiln_temperature_kelvin
HoldSetPoint(seg) == seg.configuration.target_temperature

FiringSegmentHold_handle_kiln_temperature_changed(t) ==
    /\ Calls(t, "FiringSegmentHold", "handle_kiln_temperature_changed")
    /\ LET i == Callee(t).o
       IN /\ segments' = [segments EXCEPT ![i].latest_kiln_temperature_kelvin = Top(t).data]
          /\ IF ~segments[i].is_active
             THEN Return(t)
             ELSE Post(t, Append(Advanced(t), ContFrame(Callee(t), Top(t).data)),
                       "SEGMENT_SET_POINT_CHANGED", None, HoldSetPoint(segments[i]), Callee(t))
    /\ UNCHANGED <<progVars, compVars, schedule>>

HoldFinished_not_strict(seg) == now - seg.start_time >= seg.configuration.hold_time
HoldFinished(seg) == now - seg.start_time > seg.configuration.hold_time

FiringSegmentHold_handle_kiln_temperature_changed_finish(t) ==
    /\ Resumes(t, "FiringSegmentHold", "handle_kiln_temperature_changed")
    /\ IF HoldFinished(segments[Top(t).h.o])
       THEN Post(t, Popped(t), "SEGMENT_FINISHED", None, None, Top(t).h)
       ELSE Continue(t, Popped(t), subs) /\ UNCHANGED hist
    /\ UNCHANGED <<progVars, compVars, schedVars>>

\* ----------------------------------------------------------------- schedule
\* current_segment_index is 0-based as in the source; segment objects are
\* named by their 1-based position in FiringSchedule.segments.
\* handle_segment_finished: when its registration is already gone, the
\* list.index() of unsubscribe raises ValueError.
\* self.segments[0] raises IndexError when the schedule has no segment.
FiringSchedule_handle_kiln_initialised(t) ==
    /\ Calls(t, "FiringSchedule", "handle_kiln_initialised")
    /\ schedule' = [schedule EXCEPT !.current_segment_index = 0]
    /\ IF segments = <<>>
       THEN Raise(t)
       ELSE /\ Post(t, Advanced(t), "SCHEDULE_NEXT_SEGMENT", None, 1, Callee(t))
            /\ UNCHANGED <<pcMain, pcTimer>>
    /\ UNCHANGED <<cfg, subs, now, ticks, halt, app, compVars, segments>>

FiringSchedule_handle_segment_finished(t) ==
    /\ Calls(t, "FiringSchedule", "handle_segment_finished")
    /\ LET index == schedule.current_segment_index + 1
       IN /\ schedule' = [schedule EXCEPT !.current_segment_index = index]
          /\ IF index < Len(segments)
             THEN /\ Post(t, Advanced(t), "SCHEDULE_NEXT_SEGMENT", None, index + 1, Callee(t))
                  /\ UNCHANGED <<subs, pcMain, pcTimer>>
             ELSE IF IndexOf(subs["SEGMENT_FINISHED"], Callee(t), 1) = 0
             THEN Raise(t) /\ UNCHANGED subs
             ELSE /\ subs' = unsubscribe(subs, "SEGMENT_FINISHED", Callee(t))
                  /\ \E taken \in SUBSET { u \in Threads \ {t} :
                                            Calls(u, "FiringSchedule", "handle_segment_finished") } :
                        stack' = [u \in Threads |->
                                    Unwind(IF u = t
                                           THEN Append(Advanced(t),
                                                       PostFrame("SCHEDULE_FINISHED", None, None))
                                           ELSE IF u \in taken THEN Taken(u) ELSE stack[u],
                                           subs')]
                  /\ hist' = [Logged("SCHEDULE_FINISHED", None, Callee(t)) EXCEPT
                                 !.unsubscribed = Append(@, <<"SEGMENT_FINISHED", Callee(t)>>)]
                  /\ UNCHANGED <<pcMain, pcTimer>>
    /\ UNCHANGED <<cfg, now, ticks, halt, app, compVars, segments>>

\* -------------------------------------------------------------- application
Application_handle_schedule_finished(t) ==
    /\ Calls(t, "Application", "handle_schedule_finished")
    /\ app' = [app EXCEPT !.running = FALSE]
    /\ Return(t)
    /\ UNCHANGED <<cfg, subs, pcMain, pcTimer, now, ticks, halt, compVars, schedVars>>

\* handle_cool_down_finished calls Kiln.stop_regular_updates().
Application_handle_cool_down_finished(t) ==
    /\ Calls(t, "Application", "handle_cool_down_finished")
    /\ app' = [app EXCEPT !.running = FALSE]
    /\ halt' = TRUE
    /\ Return(t)
    /\ UNCHANGED <<cfg, subs, pcMain, pcTimer, now, ticks, compVars, schedVars>>

\* ------------------------------------------------------------ specification
Next ==
    \/ Application_run
    \/ main_KeyboardInterrupt
    \/ Application_cool_down
    \/ main_KeyboardInterrupt_cool_down
    \/ RepeatingTimer_run
    \/ RepeatingTimer_stop
    \/ \E t \in Threads :
        \/ SensorVIRTUAL_handle_zone_update_triggered(t)
        \/ SensorVIRTUAL_handle_heater_power_changed(t)
        \/ SensorMAX31856_handle_zone_update_triggered(t)
        \/ SensorMAX31856_read_sensor_return(t)
        \/ Controller_handle_segment_set_point_changed(t)
        \/ Controller_handle_zone_temperature_changed(t)
        \/ ControllerVIRTUAL_handle_zone_update_trigger(t)
        \/ ControllerPID_handle_zone_update_trigger(t)
        \/ HeaterVIRTUAL_handle_controller_output_change(t)
        \/ HeaterSSRPWM_handle_controller_output_change(t)
        \/ HeaterVIRTUAL_handle_schedule_finished(t)
        \/ HeaterSSRPWM_handle_schedule_finished(t)
        \/ Zone_handle_segment_started(t)
        \/ Zone_handle_segment_finished(t)
        \/ Zone_handle_schedule_finished(t)
        \/ Zone_handle_temperature_reading(t)
        \/ Kiln_handle_zone_temperature_update(t)
        \/ IsolatorVirtual_handle_schedule_next_segment(t)
        \/ IsolatorVirtual_handle_schedule_finished(t)
        \/ IsolatorRelaySingle_handle_schedule_next_segment(t)
        \/ IsolatorRelaySingle_handle_schedule_finished(t)
        \/ IsolatorRelayDual_handle_schedule_next_segment(t)
        \/ IsolatorRelayDual_handle_schedule_finished(t)
        \/ FiringSegment_handle_schedule_next_segment(t)
        \/ FiringSegment_handle_schedule_next_segment_started(t)
        \/ FiringSegmentRamp_handle_kiln_temperature_changed(t)
        \/ FiringSegmentRamp_handle_kiln_temperature_changed_finish(t)
        \/ FiringSegmentHold_handle_kiln_temperature_changed(t)
        \/ FiringSegmentHold_handle_kiln_temperature_changed_finish(t)
        \/ FiringSchedule_handle_kiln_initialised(t)
        \/ FiringSchedule_handle_segment_finished(t)
        \/ Application_handle_schedule_finished(t)
        \/ Application_handle_cool_down_finished(t)

Spec == Init /\ [][Next]_vars

\* ------------------------------------------------------------------ claims
Engaged == ~isolator.relay1 \/ ~isolator.relay2
Initialised == schedule.current_segment_index # None
Dispatching(ev) ==
    \E t \in Threads : \E j \in 1..Len(stack[t]) : stack[t][j].k = "post" /\ stack[t][j].ev = ev
\* Context t leaves a post_event(ev) call in this step.
Completes(t, ev) ==
    \E j \in 1..Len(stack[t]) :
        stack[t][j].k = "post" /\ stack[t][j].ev = ev /\ Len(stack'[t]) < j

\* C1: whenever the isolator is engaged, KILN_INITIALISED has been handled and
\* no SCHEDULE_FINISHED has been published (states inside the dispatch of a
\* SCHEDULE_FINISHED, before the isolator's handler ran, are not counted).
C1_EngagedImpliesInProgress ==
    (Engaged /\ ~Dispatching("SCHEDULE_FINISHED")) => (Initialised /\ ~hist.finished)

\* C2: when a dispatch of SCHEDULE_FINISHED completes, every heater has power 0
\* and duty cycle 0.
C2_HeatersOffAtFinish ==
    [][\A t \in Threads : Completes(t, "SCHEDULE_FINISHED") =>
          \A z \in ZoneIds : heater'[z].power_percent = 0 /\ heater'[z].duty_cycle = 0]_vars

\* C3: once a sensor fault has published SCHEDULE_FINISHED, no segment is named
\* by SCHEDULE_NEXT_SEGMENT any more, a disengaged isolator stays disengaged
\* and a heater at power 0 stays at 0.
C3_FaultEndsFiring ==
    [][hist.faulted =>
          /\ hist'.named = hist.named
          /\ (~Engaged => ~Engaged')
          /\ \A z \in ZoneIds : heater[z].power_percent = 0 => heater'[z].power_percent = 0]_vars

\* C4: the isolator changes state only by engaging in the dispatch of the first
\* SCHEDULE_NEXT_SEGMENT and by disengaging in a dispatch of SCHEDULE_FINISHED.
C4_IsolatorTransitions ==
    [][isolator' # isolator =>
          \/ /\ Engaged' /\ Len(hist.named) = 1
             /\ \E t \in Threads : Calls(t, cfg.isolator_type, "handle_schedule_next_segment")
          \/ /\ ~Engaged'
             /\ \E t \in Threads : Calls(t, cfg.isolator_type, "handle_schedule_finished")]_vars

\* C5: at most one segment of the schedule is active, in every state.
C5_AtMostOneActive == Cardinality(ActiveSegments) <= 1

Cursor == schedule.current_segment_index
\* Context t runs FiringSchedule.handle_segment_finished in this step.
ScheduleHandles(t) ==
    Calls(t, "FiringSchedule", "handle_segment_finished") /\ stack'[t] # stack[t]

\* C6: once KILN_INITIALISED is handled the cursor never decreases, changes
\* only by +1 and only when the schedule handles a SEGMENT_FINISHED (which
\* always advances it), and never exceeds the number of segments.
C6_CursorMonotonic ==
    [][Initialised =>
          /\ Cursor' >= Cursor
          /\ Cursor' <= Len(segments)
          /\ Cursor' # Cursor => Cursor' = Cursor + 1 /\ \E t \in Threads : ScheduleHandles(t)
          /\ \A t \in Threads : ScheduleHandles(t) => Cursor' = Cursor + 1]_vars

\* C7: the schedule publishes SCHEDULE_FINISHED once, when the cursor reaches
\* the segment count, and from then on the cursor, the segments named and the
\* schedule's SCHEDULE_FINISHED count stay as they are.
C7_TerminalAfterExhaustion ==
    [][/\ hist'.byschedule <= 1
       /\ (Cursor < Len(segments) /\ Cursor' = Len(segments)) => hist'.byschedule = 1
       /\ Cursor >= Len(segments) =>
             /\ Cursor' = Cursor
             /\ hist'.named = hist.named
             /\ hist'.byschedule = hist.byschedule]_vars

\* C8: the n-th SCHEDULE_NEXT_SEGMENT names the n-th segment, and each one
\* after the first is published by the schedule handling a SEGMENT_FINISHED
\* that was published while the segment before was the active one.
C8_SegmentsNamedInOrder ==
    [][hist'.named # hist.named =>
          LET n == Len(hist'.named)
          IN /\ hist'.named[n] = n
             /\ n > 1 => \E t \in Threads : /\ ScheduleHandles(t)
                                             /\ Top(t).ev = "SEGMENT_FINISHED"
                                             /\ Top(t).active = {n - 1}]_vars

\* Context t resumes the Ramp handler after its set point publish; the frame's
\* data is the payload of the KILN_TEMPERATURE_CHANGED event it is handling.
RampDecides(t) ==
    Resumes(t, "FiringSegmentRamp", "handle_kiln_temperature_changed") /\ stack'[t] # stack[t]
\* ... and publishes SEGMENT_FINISHED (its post_event call replaces its frame).
FinishPublished(t) ==
    /\ Len(stack'[t]) = Len(stack[t])
    /\ stack'[t][Len(stack'[t])].k = "post"
    /\ stack'[t][Len(stack'[t])].ev = "SEGMENT_FINISHED"

\* C9: an active Ramp handling a reading publishes SEGMENT_FINISHED iff that
\* reading is within the tolerance of its target.
C9_RampFinishesIffWithinTolerance ==
    [][\A t \in Threads :
          RampDecides(t) =>
             LET target == segments[Top(t).h.o].configuration.target_temperature
             IN FinishPublished(t) <=> Abs(target - Top(t).data) < Tolerance]_vars

\* C10: the set points a Ramp publishes after its activation never move away
\* from its target and never pass it.
C10_RampSetPointsMonotonic ==
    [][\A i \in SegIds :
          (/\ segments[i].configuration.kind = "Ramp"
           /\ hist.announced[i] # None
           /\ hist'.announced[i] # hist.announced[i]) =>
             LET target == segments[i].configuration.target_temperature
             IN IF segments'[i].start_temperature_kelvin < target
                THEN hist.announced[i] <= hist'.announced[i] /\ hist'.announced[i] <= target
                ELSE hist.announced[i] >= hist'.announced[i] /\ hist'.announced[i] >= target]_vars

\* Context t resumes the Hold handler after its set point publish.
HoldDecides(t) ==
    Resumes(t, "FiringSegmentHold", "handle_kiln_temperature_changed") /\ stack'[t] # stack[t]
\* A SEGMENT_FINISHED publish that has not called a handler yet, made while
\* segment i was the only active one.
FreshFinishOf(i) ==
    \E t \in Threads : /\ InDispatch(t)
                        /\ Top(t).ev = "SEGMENT_FINISHED"
                        /\ Top(t).idx = 1
                        /\ Top(t).active = {i}

\* C11: a Hold handling a reading publishes SEGMENT_FINISHED iff the time since
\* its activation is strictly greater than its hold time.
C11_HoldFinishesIffTimeExceeded ==
    [][\A t \in Threads :
          HoldDecides(t) =>
             LET i == Top(t).h.o
             IN FinishPublished(t) <=>
                   now - hist.activated[i] > segments[i].configuration.hold_time]_vars

\* A Hold publishes SEGMENT_FINISHED two hold times after its activation: the
\* reading at exactly one hold time did not finish it.
C11_Witness ==
    \E i \in SegIds : /\ segments[i].configuration.kind = "Hold"
                       /\ segments[i].is_active
                       /\ FreshFinishOf(i)
                       /\ now - hist.activated[i] = 2 * segments[i].configuration.hold_time

\* Context t publishes SEGMENT_SET_POINT_CHANGED in this step; Published(t) is
\* the post_event call it has just made.
Published(t) == stack'[t][Len(stack'[t])]
SetPointPublished(t) ==
    /\ stack'[t] # stack[t]
    /\ stack'[t] # <<>>
    /\ Published(t).k = "post"
    /\ Published(t).ev = "SEGMENT_SET_POINT_CHANGED"
    /\ Published(t).idx = 1
IsHold(i) == segments[i].configuration.kind = "Hold"

\* C12: every SEGMENT_SET_POINT_CHANGED published while a Hold is the active
\* segment, from its activation on, carries the Hold's target temperature.
C12_HoldSetPointsAtTarget ==
    [][\A t \in Threads : \A i \in SegIds :
          (SetPointPublished(t) /\ IsHold(i) /\ segments'[i].is_active) =>
             Published(t).data = segments[i].configuration.target_temperature]_vars

\* C12, amended: every SEGMENT_SET_POINT_CHANGED an active Hold publishes when
\* it handles a temperature reading carries its target temperature (the ones
\* published in its activation carry measured temperatures).
C12_HoldHandlerPublishesTarget ==
    [][\A t \in Threads :
          (/\ Calls(t, "FiringSegmentHold", "handle_kiln_temperature_changed")
           /\ stack'[t] # stack[t]
           /\ segments[Callee(t).o].is_active) =>
             /\ SetPointPublished(t)
             /\ Published(t).data = segments[Callee(t).o].configuration.target_temperature]_vars

\* An active Hold has just published its target as set point for a reading
\* that differs from the target.
C12_Witness ==
    \E t \in Threads : \E i \in SegIds :
        /\ IsHold(i) /\ segments[i].is_active
        /\ Len(stack[t]) >= 2
        /\ Top(t).k = "post" /\ Top(t).ev = "SEGMENT_SET_POINT_CHANGED" /\ Top(t).idx = 1
        /\ Top(t).data = segments[i].configuration.target_temperature
        /\ stack[t][Len(stack[t]) - 1].k = "cont"
        /\ stack[t][Len(stack[t]) - 1].h = H("FiringSegmentHold", "handle_kiln_temperature_changed", i)
        /\ stack[t][Len(stack[t]) - 1].data # Top(t).data

\* The post_event call at position j of context t returns in this step (an
\* exception that ends the context is no return).
Returns(t, j) ==
    /\ j \in 1..Len(stack[t])
    /\ stack[t][j].k = "post"
    /\ Len(stack'[t]) < j
    /\ ~(t = "main" /\ pcMain' = "crashed")
    /\ ~(t = "timer" /\ pcTimer' = "crashed")
\* The handlers that call has invoked when it returns: the innermost call of
\* the context invokes its last one in this very step.
CalledAtReturn(t, j) ==
    IF j = Len(stack[t]) /\ HasNext(t)
    THEN Append(stack[t][j].called, Callee(t))
    ELSE stack[t][j].called
\* called holds handlers of the list registered, in the order of that list and
\* each at most once.
InOrderOf(called, registered) ==
    /\ \A a \in 1..Len(called) : IndexOf(registered, called[a], 1) > 0
    /\ \A a \in 1..Len(called) : \A b \in 1..Len(called) :
          a < b => IndexOf(registered, called[a], 1) < IndexOf(registered, called[b], 1)

C14_DepthFirst ==
    [][\A t \in Threads : \A j \in 1..(Len(stack[t]) - 1) :
          Len(stack'[t]) >= j => stack'[t][j] = stack[t][j]]_vars

\* A nested call is running handlers while its publishing handler waits and
\* the outermost call still has handlers to run.
C14_Witness ==
    \E t \in Threads :
        /\ Len(stack[t]) >= 3
        /\ stack[t][1].k = "post" /\ stack[t][1].idx <= Len(subs[stack[t][1].ev])
        /\ \E j \in 2..(Len(stack[t]) - 1) : stack[t][j].k = "cont"
        /\ Top(t).k = "post" /\ Top(t).called # <<>> /\ HasNext(t)

ScheduleHandler == H("FiringSchedule", "handle_segment_finished", 0)
Unsubscribed == IndexOf(subs["SEGMENT_FINISHED"], ScheduleHandler, 1) = 0
\* Context t has run FiringSchedule.handle_segment_finished in this step: it
\* has published from it, or the handler has raised.
ScheduleRuns(t) ==
    /\ Calls(t, "FiringSchedule", "handle_segment_finished")
    /\ Cursor' # Cursor
    /\ \/ t = "main" /\ pcMain' = "crashed"
       \/ t = "timer" /\ pcTimer' = "crashed"
       \/ /\ Len(stack'[t]) = Len(stack[t]) + 1
          /\ Published(t).idx = 1
          /\ Published(t).ev \in {"SCHEDULE_NEXT_SEGMENT", "SCHEDULE_FINISHED"}

\* C15: the schedule's handler unsubscribes itself while it runs in a dispatch
\* of SEGMENT_FINISHED; what it did in that dispatch stands (the cursor is at
\* the segment count or beyond, SCHEDULE_FINISHED is published, the handler
\* stays unsubscribed), and no SEGMENT_FINISHED published after that invokes it.
C15_UnsubscribedHandlerNotInvokedLater ==
    [][/\ \A t \in Threads : ScheduleRuns(t) => ~Top(t).exhausted
       /\ subs' # subs =>
             /\ ~Unsubscribed /\ Unsubscribed'
             /\ Cursor' = Len(segments)
             /\ hist'.byschedule = hist.byschedule + 1
       /\ hist.byschedule > 0 =>
             /\ Unsubscribed'
             /\ Cursor' >= Len(segments)
             /\ hist'.byschedule >= hist.byschedule]_vars

\* A SEGMENT_FINISHED published after the schedule unsubscribed its handler:
\* the call finds fewer handlers than were subscribed at construction.
C15_Witness ==
    \E t \in Threads :
        /\ InDispatch(t)
        /\ Top(t).ev = "SEGMENT_FINISHED"
        /\ Top(t).exhausted
        /\ Top(t).idx = 1
        /\ Len(Top(t).registered) < Len(InitialSubscribers(cfg)["SEGMENT_FINISHED"])
        /\ IndexOf(Top(t).registered, ScheduleHandler, 1) = 0

\* Context t has ended with an uncaught exception.
Crashed(t) == (t = "main" /\ pcMain = "crashed") \/ (t = "timer" /\ pcTimer = "crashed")
\* The handler context t runs in this step fails: the schedule's handler is at
\* or past the last segment and unsubscribe does not find it in the list.
Fails(t) ==
    /\ Calls(t, "FiringSchedule", "handle_segment_finished")
    /\ Unsubscribed
    /\ Cursor' = Cursor + 1
    /\ Cursor' >= Len(segments)
    /\ stack'[t] # stack[t]

\* C16: a handler that fails during a dispatch ends every post_event call of
\* its context (the failure reaches the outermost publisher), no further
\* handler of that context is invoked, then or later, and the subscriber
\* registry is unchanged.
C16_FailurePropagates ==
    [][\A t \in Threads :
          /\ Fails(t) =>
                /\ stack'[t] = <<>>
                /\ Crashed(t)'
                /\ subs' = subs
                /\ UNCHANGED <<app, compVars, segments, hist>>
          /\ Crashed(t) => stack'[t] = <<>> /\ Crashed(t)']_vars

\* The schedule's handler has failed in a context: the cursor is past the
\* segment count and the context has ended.
C16_Witness ==
    \E t \in Threads :
        /\ Crashed(t)
        /\ stack[t] = <<>>
        /\ Unsubscribed
        /\ Cursor > Len(segments)

\* The payloads of the ZONE_CONTROLLER_OUTPUT_CHANGED events being dispatched.
ControllerOutputPayloads ==
    UNION { { stack[t][j].data : j \in
                { j \in 1..Len(stack[t]) :
                    /\ stack[t][j].k = "post"
                    /\ stack[t][j].ev = "ZONE_CONTROLLER_OUTPUT_CHANGED" } } : t \in Threads }

\* C17: every payload of ZONE_CONTROLLER_OUTPUT_CHANGED and the power of every
\* heater lie between 0 and 100 percent.
C17_OutputsWithinRange ==
    /\ \A p \in ControllerOutputPayloads : p \in 0..FullPower
    /\ \A z \in ZoneIds : heater[z].power_percent \in 0..FullPower

\* A controller output of 55 percent is being dispatched and the PWM heater
\* has set its power to the quantised 50 percent.
C17_Witness ==
    /\ 5500 \in ControllerOutputPayloads
    /\ \E z \in ZoneIds : heater[z].power_percent = Quantised(5500) /\ heater[z].power_percent # 5500

ControllerClasses == {"ControllerVIRTUAL", "ControllerPID"}
\* A controller's handle_zone_update_trigger runs in context t in this step,
\* called for a tick of the timer.
ControllerReacts(t) ==
    /\ HasNext(t)
    /\ Top(t).ev = "KILN_UPDATE_TRIGGERED"
    /\ Callee(t).cls \in ControllerClasses
    /\ stack'[t] # stack[t]

\* C18: on every tick of the timer each zone's controller, virtual or PID,
\* publishes one ZONE_CONTROLLER_OUTPUT_CHANGED whose selector is its zone.
C18_ControllerOutputsOnEveryTick ==
    [][\A t \in Threads :
          ControllerReacts(t) =>
              /\ Len(stack'[t]) = Len(stack[t]) + 1
              /\ Published(t).k = "post"
              /\ Published(t).ev = "ZONE_CONTROLLER_OUTPUT_CHANGED"
              /\ Published(t).idx = 1
              /\ Published(t).sel = Callee(t).o]_vars

\* The timer's dispatch of its latest tick has returned.
TickDone == stack["timer"] = <<>>

\* C19: one Ramp to 1273.15 K at 1 K/s on the all-virtual chain, from 273.15 K,
\* ticked once per second: SCHEDULE_FINISHED is published by tick 1005, and
\* the schedule does not publish it before tick 995.
C19_RampScenarioFinishes ==
    cfg = RampScenario =>
        /\ (ticks = RampScenarioTicks /\ TickDone) => hist.finished
        /\ hist.byschedule > 0 => ticks + 10 >= RampScenarioTicks

\* C20: one Hold of 10 s at 500 K activated at t0, ticked once per second:
\* SCHEDULE_FINISHED is published once the tick at t0 + 11 s is done, and the
\* schedule does not publish it before t0 + 9 s.
C20_HoldScenarioFinishes ==
    (cfg = HoldScenario /\ hist.activated[1] # None) =>
        LET elapsed == now - hist.activated[1]
            hold == segments[1].configuration.hold_time
        IN /\ (elapsed >= hold + TimerPeriod /\ TickDone) => hist.finished
           /\ hist.byschedule > 0 => elapsed >= hold - TimerPeriod

\* The event types whose selector is a Zone; the others are global.
ZoneEventTypes ==
    {"ZONE_SENSOR_TEMPERATURE_CHANGED", "ZONE_CONTROLLER_OUTPUT_CHANGED",
     "ZONE_HEATER_POWER_CHANGED"}
\* The post_event calls in progress.
PostFrames ==
    UNION { { stack[t][j] : j \in { j \in 1..Len(stack[t]) : stack[t][j].k = "post" } } :
            t \in Threads }

\* C21: every published event of a global type carries selector None, and
\* every event of a ZONE_* type carries a zone of the kiln.
C21_SelectorShape ==
    \A f \in PostFrames :
        IF f.ev \in ZoneEventTypes THEN f.sel \in ZoneIds ELSE f.sel = None

\* HeaterSSRPWM.handle_controller_output_change applies a request of its own
\* zone in context t in this step.
PwmApplies(t) ==
    /\ Calls(t, "HeaterSSRPWM", "handle_controller_output_change")
    /\ Top(t).sel = Callee(t).o
    /\ stack'[t] # stack[t]

\* C22: the PWM heater applies the largest multiple of 10 percent that does
\* not exceed the request p (100 percent for p = 100), a value in [0,100],
\* and writes the duty cycle int(applied / 100 * 65535).
C22_PwmQuantisation ==
    [][\A t \in Threads :
          PwmApplies(t) =>
              LET p == Top(t).data
                  applied == heater'[Callee(t).o].power_percent
                  duty == heater'[Callee(t).o].duty_cycle
              IN /\ applied \in 0..FullPower
                 /\ applied % PwmStep = 0
                 /\ applied <= p /\ p < applied + PwmStep
                 /\ p = FullPower => applied = FullPower
                 /\ duty * FullPower <= applied * PwmFullDuty
                 /\ applied * PwmFullDuty < (duty + 1) * FullPower]_vars

\* The controller has requested 99.99 percent and the PWM heater has applied
\* 90 percent.
C22_Witness ==
    \E z \in ZoneIds :
        /\ cfg.zones[z].heater = "HeaterSSRPWM"
        /\ controller[z].output = 9999
        /\ heater[z].power_percent = 9000
        /\ heater[z].duty_cycle = 58981

KilnHandler == H("Kiln", "handle_zone_temperature_update", 0)
\* The ZONE_SENSOR_TEMPERATURE_CHANGED events published and not yet delivered
\* to the kiln.
UndeliveredReadings ==
    { f \in PostFrames :
        /\ f.ev = "ZONE_SENSOR_TEMPERATURE_CHANGED"
        /\ \A n \in 1..Len(f.called) : f.called[n] # KilnHandler }
\* C23: after any sequence of ZONE_SENSOR_TEMPERATURE_CHANGED events (all of
\* them delivered to the kiln), the kiln's latest temperature is the payload
\* of the most recent one.
C23_KilnTemperatureIsLatestReading ==
    (hist.reading # None /\ UndeliveredReadings = {}) =>
        kiln.latest_temperature_kelvin = hist.reading


\* C24: when the dispatch of SCHEDULE_NEXT_SEGMENT that activates a segment
\* completes, the controller of each zone holds a set point equal to the
\* latest temperature of its own zone.
C24_SetPointSeededPerZone ==
    [][\A t \in Threads :
          Completes(t, "SCHEDULE_NEXT_SEGMENT") =>
              \A z \in ZoneIds :
                  controller'[z].set_point = zone'[z].latest_temperature_kelvin]_vars

\* ---------------------------------------------------------- schedule loading
\* A segment as configured in the schedule file (scale Kelvin, hold time in
\* seconds, gradient per second: the conversions return the value unchanged);
\* None stands for a key that is absent.
RawSegment(target, hold, gradient) ==
    [target_temperature |-> target, hold_time |-> hold, temperature_gradient |-> gradient]
RawSegments ==
    { RawSegment(T, h, g) : T \in {27500, 80000}, h \in {None, 10}, g \in {None, 100} }
RawSchedules == UNION { [1..n -> RawSegments] : n \in 0..MaxRawSegments }

HoldOnly(r) == r.hold_time # None /\ r.temperature_gradient = None
RampOnly(r) == r.hold_time = None /\ r.temperature_gradient # None
Normalised(r) ==
    IF HoldOnly(r) THEN HoldCfg(r.target_temperature, r.hold_time)
                   ELSE RampCfg(r.target_temperature, r.temperature_gradient)

\* The loop of FiringSchedule.__init__ from configured segment i on, `built`
\* being self.segments: after the two appends it reads self.segments[-1],
\* which raises IndexError when the list is still empty.
RECURSIVE LoadSegments(_, _, _)
LoadSegments(raw, i, built) ==
    IF i > Len(raw) THEN [ok |-> TRUE, segments |-> built]
    ELSE LET appended == IF HoldOnly(raw[i]) \/ RampOnly(raw[i])
                         THEN Append(built, Normalised(raw[i])) ELSE built
         IN IF appended = <<>> THEN [ok |-> FALSE, segments |-> appended]
            ELSE LoadSegments(raw, i + 1, appended)

\* Application.__init__ has constructed the kiln and is about to construct
\* the schedule from the configured segments.
LoadInit ==
    /\ \E raw \in RawSchedules : cfg = Run(PhysicalKiln, raw, MaxTicks)
    /\ subs = [ev \in EventTypes |-> KilnSubscribers(cfg, ev)]
    /\ stack = [t \in Threads |-> <<>>]
    /\ pcMain = "construct"
    /\ pcTimer = "idle"
    /\ now = 0
    /\ ticks = 0
    /\ halt = FALSE
    /\ app = [running |-> FALSE]
    /\ sensor = [z \in 1..Len(cfg.zones) |-> [latest_temperature_kelvin |-> InitialKelvin]]
    /\ controller = [z \in 1..Len(cfg.zones) |-> NewController(cfg.zones[z].controller)]
    /\ heater = [z \in 1..Len(cfg.zones) |-> [power_percent |-> 0, duty_cycle |-> 0]]
    /\ zone = [z \in 1..Len(cfg.zones) |-> [latest_temperature_kelvin |-> InitialKelvin]]
    /\ kiln = [latest_temperature_kelvin |-> InitialKelvin]
    /\ isolator = [relay1 |-> TRUE, relay2 |-> TRUE]
    /\ segments = <<>>
    /\ schedule = [current_segment_index |-> None]
    /\ hist = [finished |-> FALSE, faulted |-> FALSE, byschedule |-> 0, named |-> <<>>,
               announced |-> <<>>, activated |-> <<>>, reading |-> None, completed |-> {},
               informed |-> [z \in 1..Len(cfg.zones) |-> 0], unsubscribed |-> <<>>,
               set_point |-> None, kiln_temperature |-> None, refused |-> {},
               power |-> [z \in 1..Len(cfg.zones) |-> None]]

\* FiringSchedule.__init__: the segments subscribe as they are constructed,
\* the schedule after the loop; an exception leaves main() uncaught. On
\* success Application.__init__ goes on to its own subscriptions and returns.
FiringSchedule_init ==
    /\ pcMain = "construct"
    /\ LET loaded == LoadSegments(cfg.segments, 1, <<>>)
       IN IF loaded.ok
          THEN /\ segments' = [i \in 1..Len(loaded.segments) |-> NewSegment(loaded.segments[i])]
               /\ subs' = [ev \in EventTypes |->
                              subs[ev] \o ScheduleSubscribers([segments |-> loaded.segments], ev)
                                      \o ApplicationSubscribers(ev)]
               /\ pcMain' = "run"
          ELSE /\ pcMain' = "crashed"
               /\ UNCHANGED <<segments, subs>>
    /\ UNCHANGED <<cfg, stack, pcTimer, now, ticks, halt, app, compVars, schedule, hist>>

\* Startup: construction, Application.run() and the schedule's handling of
\* KILN_INITIALISED.
LoadNext ==
    \/ FiringSchedule_init
    \/ Application_run
    \/ \E t \in Threads : FiringSchedule_handle_kiln_initialised(t)
LoadSpec == LoadInit /\ [][LoadNext]_vars

\* The configured segments that have exactly one of hold time and gradient.
RECURSIVE ValidSegments(_)
ValidSegments(raw) ==
    IF raw = <<>> THEN <<>>
    ELSE (IF HoldOnly(raw[1]) \/ RampOnly(raw[1]) THEN <<Normalised(raw[1])>> ELSE <<>>)
         \o ValidSegments(Tail(raw))

\* C25: loading a schedule succeeds without error, and its segment list is
\* the configured segments that have exactly one of hold time and gradient,
\* in their configured order, wherever an invalid segment sits.
C25_InvalidSegmentsOmitted ==
    pcMain \notin {"construct"} =>
        /\ pcMain # "crashed"
        /\ [i \in 1..Len(segments) |-> segments[i].configuration] = ValidSegments(cfg.segments)

\* A step of the timer thread's dispatch.
TimerStep == Next /\ stack'["timer"] # stack["timer"]

\* C26: once stop_regular_updates has set the stop flag no further tick is
\* published and the flag stays set; a tick in progress when the flag is set
\* goes on running, the loop ends only between two ticks, and ticks never
\* resume afterwards.
C26_StopFlagEndsTicks ==
    /\ [](halt /\ stack["timer"] # <<>> => ENABLED TimerStep)
    /\ [][/\ halt => halt' /\ ticks' = ticks
          /\ (pcTimer' = "stopped" /\ pcTimer # "stopped") => halt /\ stack["timer"] = <<>>
          /\ pcTimer = "stopped" =>
                pcTimer' = "stopped" /\ ticks' = ticks /\ stack'["timer"] = <<>>]_vars

\* The flag was set while a tick was in progress, and fewer ticks than the
\* run allows were published.
C26_Witness ==
    /\ halt
    /\ pcTimer = "wait"
    /\ stack["timer"] # <<>>
    /\ ticks < cfg.max_ticks

\* C27: at most one dispatch chain is executing at any time: the tick thread
\* and the foreground context never have handlers in progress together.
C27_SingleDispatchChain == ~(stack["main"] # <<>> /\ stack["timer"] # <<>>)

\* Segment i's handle_schedule_next_segment runs in context t in this step,
\* called for a SCHEDULE_NEXT_SEGMENT event.
SegmentHandlesNext(t, i) ==
    /\ HasNext(t)
    /\ Top(t).ev = "SCHEDULE_NEXT_SEGMENT"
    /\ Callee(t).cls \in SegmentClasses
    /\ Callee(t).o = i
    /\ stack'[t] # stack[t]

\* The post_event call at depth p of context t, a SCHEDULE_NEXT_SEGMENT,
\* returns in this step: its last handler has returned.
NextSegmentDispatched(t, p) ==
    /\ stack[t][p].k = "post"
    /\ stack[t][p].ev = "SCHEDULE_NEXT_SEGMENT"
    /\ Len(stack'[t]) < p
    /\ ~Crashed(t)'

\* C28: a segment's is_active changes only in its handler of
\* SCHEDULE_NEXT_SEGMENT, which sets it exactly when the payload is that
\* segment; once the dispatch of SCHEDULE_NEXT_SEGMENT has returned every
\* segment other than the one named is inactive.
C28_ActiveOnlyWhenNamed ==
    [][/\ \A i \in 1..Len(segments) :
             /\ segments'[i].is_active # segments[i].is_active =>
                    \E t \in Threads : SegmentHandlesNext(t, i)
             /\ \A t \in Threads :
                    SegmentHandlesNext(t, i) =>
                        (segments'[i].is_active <=> Top(t).data = i)
       /\ \A t \in Threads : \A p \in 1..Len(stack[t]) :
             NextSegmentDispatched(t, p) =>
                 \A j \in 1..Len(segments) \ {stack[t][p].data} : ~segments'[j].is_active]_vars

\* A handler of segment i runs in context t in this step and publishes ev.
SegmentPublishes(t, i, ev) ==
    /\ \/ HasNext(t) /\ Callee(t).cls \in SegmentClasses /\ Callee(t).o = i
       \/ /\ stack[t] # <<>> /\ Top(t).k = "cont"
          /\ Top(t).h.cls \in SegmentClasses /\ Top(t).h.o = i
    /\ stack'[t] # stack[t]
    /\ stack'[t] # <<>>
    /\ Published(t).k = "post"
    /\ Published(t).ev = ev
    /\ Published(t).idx = 1

\* C29: a segment publishes SEGMENT_SET_POINT_CHANGED or SEGMENT_FINISHED
\* only while it is the one active segment, and never again once it has
\* published SEGMENT_FINISHED; this for every segment, the last included.
C29_FinishedSegmentIsBypassed ==
    [][\A t \in Threads : \A i \in 1..Len(segments) :
          \A ev \in {"SEGMENT_SET_POINT_CHANGED", "SEGMENT_FINISHED"} :
              SegmentPublishes(t, i, ev) =>
                  /\ ActiveSegments' = {i}
                  /\ i \notin hist.completed]_vars

\* C30: within every tick and for every zone the controller publishes
\* ZONE_CONTROLLER_OUTPUT_CHANGED only after the SEGMENT_SET_POINT_CHANGED that
\* came from that tick's reading of the zone has been delivered to it.
C30_SetPointBeforeOutput ==
    [][\A t \in Threads :
          /\ ControllerReacts(t)
          /\ Len(stack'[t]) = Len(stack[t]) + 1
          /\ Published(t).ev = "ZONE_CONTROLLER_OUTPUT_CHANGED"
          => hist.informed[Callee(t).o] = ticks]_vars

\* ------------------------------------------------------- the event bus alone
\* event.py used by callbacks that do nothing but return or unsubscribe: the
\* registry starts with any lists of up to MaxRegistrations registrations of
\* two callbacks for two event types, duplicates included.
Callbacks == { H("callback_function", "call", k) : k \in 1..2 }
BusEvents == {"SEGMENT_FINISHED", "SCHEDULE_FINISHED"}
Registrations == UNION { [1..n -> Callbacks] : n \in 0..MaxRegistrations }

BusInit ==
    /\ cfg = Run(VirtualKiln, <<>>, MaxTicks)
    /\ \E r \in [BusEvents -> Registrations] :
          subs = [ev \in EventTypes |-> IF ev \in BusEvents THEN r[ev] ELSE <<>>]
    /\ stack = [t \in Threads |-> <<>>]
    /\ pcMain = "bus"
    /\ pcTimer = "idle"
    /\ now = 0
    /\ ticks = 0
    /\ halt = FALSE
    /\ app = [running |-> FALSE]
    /\ sensor = [z \in 1..Len(cfg.zones) |-> [latest_temperature_kelvin |-> InitialKelvin]]
    /\ controller = [z \in 1..Len(cfg.zones) |-> NewController(cfg.zones[z].controller)]
    /\ heater = [z \in 1..Len(cfg.zones) |-> [power_percent |-> 0, duty_cycle |-> 0]]
    /\ zone = [z \in 1..Len(cfg.zones) |-> [latest_temperature_kelvin |-> InitialKelvin]]
    /\ kiln = [latest_temperature_kelvin |-> InitialKelvin]
    /\ isolator = [relay1 |-> TRUE, relay2 |-> TRUE]
    /\ segments = <<>>
    /\ schedule = [current_segment_index |-> None]
    /\ hist = [finished |-> FALSE, faulted |-> FALSE, byschedule |-> 0, named |-> <<>>,
               announced |-> <<>>, activated |-> <<>>, reading |-> None, completed |-> {},
               informed |-> [z \in 1..Len(cfg.zones) |-> 0], unsubscribed |-> <<>>,
               set_point |-> None, kiln_temperature |-> None, refused |-> {},
               power |-> [z \in 1..Len(cfg.zones) |-> None]]

\* subscribe(): appends the registration.
event_subscribe ==
    /\ pcMain = "bus" /\ stack["main"] = <<>>
    /\ \E ev \in BusEvents : \E h \in Callbacks :
          /\ Len(subs[ev]) < MaxRegistrations
          /\ subs' = [subs EXCEPT ![ev] = Append(@, h)]
    /\ UNCHANGED <<cfg, stack, pcMain, pcTimer, now, ticks, halt, app, compVars, schedVars, hist>>

\* post_event() called from the foreground.
event_post_event ==
    /\ pcMain = "bus" /\ stack["main"] = <<>>
    /\ \E ev \in BusEvents : Post("main", <<>>, ev, None, None, NoHandler)
    /\ UNCHANGED <<progVars, compVars, schedVars>>

\* A callback that returns.
callback_returns(t) ==
    /\ Calls(t, "callback_function", "call")
    /\ Return(t)
    /\ UNCHANGED <<progVars, compVars, schedVars>>

\* A callback that calls unsubscribe(), for itself or for another callback,
\* and returns; list.index raises ValueError when the handler is not in the list.
callback_unsubscribes(t) ==
    /\ Calls(t, "callback_function", "call")
    /\ Len(hist.unsubscribed) < MaxUnsubscribes
    /\ \E h \in Callbacks :
          IF IndexOf(subs[Top(t).ev], h, 1) = 0
          THEN Raise(t) /\ UNCHANGED subs
          ELSE /\ subs' = unsubscribe(subs, Top(t).ev, h)
               /\ Continue(t, Advanced(t), subs')
               /\ hist' = [hist EXCEPT !.unsubscribed = Append(@, <<Top(t).ev, h>>)]
               /\ UNCHANGED <<pcMain, pcTimer>>
    /\ UNCHANGED <<cfg, now, ticks, halt, app, compVars, schedVars>>

BusNext ==
    \/ event_subscribe
    \/ event_post_event
    \/ \E t \in Threads :
        \/ callback_returns(t)
        \/ callback_unsubscribes(t)

BusSpec == BusInit /\ [][BusNext]_vars

\* C31: an unsubscribe call that returns has removed the earliest registration
\* of the handler for the event type and nothing else: the registrations
\* before it and after it, further duplicates included, keep their order, and
\* the lists of the other event types are unchanged.
C31_UnsubscribeRemovesEarliest ==
    [][hist'.unsubscribed # hist.unsubscribed =>
          LET call == hist'.unsubscribed[Len(hist'.unsubscribed)]
              before == subs[call[1]]
              after == subs'[call[1]]
          IN /\ \A ev \in EventTypes \ {call[1]} : subs'[ev] = subs[ev]
             /\ Len(after) = Len(before) - 1
             /\ \E i \in 1..Len(before) :
                   /\ before[i] = call[2]
                   /\ \A j \in 1..(i - 1) : before[j] # call[2] /\ after[j] = before[j]
                   /\ \A j \in i..Len(after) : after[j] = before[j + 1]]_vars

\* The one unsubscribe call so far has returned, for handler h, and the list
\* still holds another handler followed by a registration of h.
C31_Witness ==
    \E ev \in BusEvents : \E g, h \in Callbacks :
        /\ g # h
        /\ hist.unsubscribed = <<<<ev, h>>>>
        /\ subs[ev] = <<g, h>>
        /\ stack["main"] = <<>>

\* C32: on a tick the virtual controller's output becomes
\* min(100, max(20, setpoint - temperature)) when setpoint > temperature and 0
\* otherwise, for the last set point published and the last reading of its
\* zone (the virtual chain has one zone); so the output is 0 or in [20, 100].
C32_VirtualControlLaw ==
    [][\A t \in Threads :
          /\ ControllerReacts(t)
          /\ Callee(t).cls = "ControllerVIRTUAL"
          /\ hist.reading # None
          /\ hist.set_point # None
          => /\ controller'[Callee(t).o].output =
                   IF hist.set_point > hist.reading
                   THEN Min(FullPower, Max(MinVirtualOutput, hist.set_point - hist.reading))
                   ELSE 0
             /\ controller'[Callee(t).o].output \in {0} \cup (MinVirtualOutput..FullPower)]_vars

\* C33: once the schedule has published SCHEDULE_FINISHED on exhaustion and
\* that event has been dispatched, every heater's power is 0, in every later
\* state: no controller output of a later tick gives a heater power again.
C33_HeatersStayOffAfterSchedule ==
    (hist.byschedule > 0 /\ ~Dispatching("SCHEDULE_FINISHED")) =>
        \A z \in ZoneIds : heater[z].power_percent = 0

\* C34: when a dispatch in which handlers unsubscribed handlers returns, every
\* handler that was registered when the publish began and lost none of its
\* registrations has run once for each of them: none was skipped.
C34_UnsubscribeSkipsNoHandler ==
    [][\A t \in Threads :
          /\ Len(stack[t]) = 1 /\ HasNext(t)
          /\ stack'[t] = <<>>
          /\ ~Crashed(t)'
          => LET Count(l, g) == Cardinality({ k \in 1..Len(l) : l[k] = g })
                 ran == Append(Top(t).called, Callee(t))
             IN \A k \in 1..Len(Top(t).registered) :
                   LET g == Top(t).registered[k]
                   IN Count(subs'[Top(t).ev], g) = Count(Top(t).registered, g)
                         => Count(ran, g) = Count(Top(t).registered, g)]_vars

\* C35: a segment that is activated starts from the payload of the most
\* recently published KILN_TEMPERATURE_CHANGED, the one whose dispatch
\* completed the previous segment included.
C35_StartsFromLatestKilnTemperature ==
    [][\A t \in Threads : \A i \in 1..Len(segments) :
          /\ SegmentHandlesNext(t, i)
          /\ Top(t).data = i
          /\ hist.kiln_temperature # None
          => segments'[i].start_temperature_kelvin = hist.kiln_temperature]_vars

\* C36: a segment publishes SEGMENT_FINISHED on a KILN_TEMPERATURE_CHANGED
\* only if it was active when that event was published: a segment activated
\* during the dispatch of a reading does not consume that reading, so one
\* reading finishes one segment at most.
C36_OneFinishPerReading ==
    [][\A t \in Threads : \A i \in 1..Len(segments) :
          SegmentPublishes(t, i, "SEGMENT_FINISHED") =>
              /\ stack[t][Len(stack[t]) - 1].ev = "KILN_TEMPERATURE_CHANGED"
              /\ i \in stack[t][Len(stack[t]) - 1].active]_vars

\* ------------------------------------------------------------ termination
\* A step of context t inside post_event. A context that is inside post_event
\* keeps running: nothing in a handler waits (the interpreter schedules both
\* threads), so its next step is eventually taken.
Dispatch(t) == Next /\ stack[t] # <<>> /\ stack'[t] # stack[t]

\* Runs of every chain, with operator interrupts, sensor faults and schedules
\* that run to exhaustion.
TerminationRuns ==
    { Run(k, RampHoldRamp, MaxTicks) : k \in { c \in KilnConfigs : c.zones # <<SimulatedChain>> } }
    \cup { Run(k, ShortRamp, MaxTicks - 1) : k \in { c \in KilnConfigs : c.zones = <<SimulatedChain>> } }
    \cup { TwoZoneRun, TwoRampsRun }

FairSpec ==
    Constructed(TerminationRuns) /\ [][Next]_vars /\ \A t \in Threads : WF_vars(Dispatch(t))

\* C37: every top-level publish terminates: a context that is inside
\* post_event, for a tick, for KILN_INITIALISED or for SCHEDULE_FINISHED,
\* eventually has returned from every post_event call.
C37_PublishTerminates ==
    \A t \in Threads : (stack[t] # <<>>) ~> (stack[t] = <<>>)

\* The simulated chain has returned from the dispatch of a tick that went
\* through controller, heater and sensor and completed the schedule, and the
\* foreground from its dispatch of KILN_INITIALISED.
C37_Witness ==
    /\ cfg.zones = <<SimulatedChain>>
    /\ ticks = 1
    /\ hist.byschedule = 1
    /\ stack = [t \in Threads |-> <<>>]

\* C38: no assertion on selector or data fails: every event published, by
\* the schedule, a segment, a zone, a heater, the kiln, the fault path of the
\* physical sensor or the operator's interrupt, satisfies the assertions of
\* the handlers of its type.
C38_NoAssertionFails == hist.refused = {}

\* The physical chain has published SCHEDULE_FINISHED from the sensor's fault
\* path and from the schedule, set points, and a heater power above 0; the
\* operator has interrupted the cool-down.
C38_Witness ==
    /\ hist.faulted
    /\ hist.byschedule > 0
    /\ hist.set_point # None
    /\ \E z \in ZoneIds : heater[z].power_percent > 0
    /\ halt

\* C39: every change of a heater's power is announced by a
\* ZONE_HEATER_POWER_CHANGED for its zone carrying the new value, so the power
\* last announced for a zone is the heater's power.
C39_PowerChangesAnnounced ==
    /\ [](\A z \in ZoneIds : hist.power[z] # None => hist.power[z] = heater[z].power_percent)
    /\ [][\A z \in ZoneIds :
            heater'[z].power_percent # heater[z].power_percent =>
                hist'.power[z] = heater'[z].power_percent]_vars

\* C40: a schedule configuration that yields no segment fails when the
\* FiringSchedule is constructed: once construction is over the run has ended
\* with an error, without the timer started or any event published.
C40_EmptyScheduleFailsAtStartup ==
    (pcMain # "construct" /\ ValidSegments(cfg.segments) = <<>>) =>
        /\ pcMain = "crashed"
        /\ pcTimer = "idle"
        /\ stack = [t \in Threads |-> <<>>]

====
